---- MODULE Spec2Model ----
(***************************************************************************)
(* matchzoo/engine/base_model.py: BaseModel (parameter bookkeeping,        *)
(* delegation to a keras backend, save) and load_model.                    *)
(*                                                                         *)
(* Python values are encoded as tagged sequences of strings so that any    *)
(* two values can be compared: None, str, int, list, class, instance and   *)
(* function objects.                                                       *)
(***************************************************************************)
EXTENDS Integers, Sequences, FiniteSets, TLC

VARIABLES model, fs, lastCall, saved

vars == <<model, fs, lastCall, saved>>

----------------------------------------------------------------------------
(* Python values *)

None == <<"None">>
Str(s) == <<"str", s>>
Num(s) == <<"int", s>>
Bool(b) == <<"bool", IF b THEN "True" ELSE "False">>
Cls(c) == <<"class", c>>
Inst(c) == <<"instance", c>>
List(items) == <<"list">> \o items
Lambda == <<"function", "<lambda>">>

\* seq[i] with Python's zero-based index
PyIndex(seq, i) == seq[i + 1]

\* mapping[k] = v: replaces the value of an existing key, adds a new key
SetItem(vals, k, v) ==
    [x \in (DOMAIN vals) \cup {k} |-> IF x = k THEN v ELSE vals[x]]

EmptyMap == [x \in {} |-> None]

----------------------------------------------------------------------------
(* Class constants and the collaborators of matchzoo.engine *)

BACKEND_FILENAME == "backend.h5"
PARAMS_FILENAME == "params.pkl"

\* concrete subclasses of BaseModel (BaseModel itself is abstract)
Classes == {"NaiveModel", "MyModel"}

StdKeys ==
    {"name", "model_class", "input_shapes", "task", "metrics", "loss",
     "optimizer"}

\* iteration order of a params mapping (insertion order)
KeyOrder ==
    <<"name", "model_class", "input_shapes", "task", "metrics", "loss",
      "optimizer", "num_eggs", "my_param">>

\* engine.ModelParams(): the seven standard keys, all unset
ModelParams == [k \in StdKeys |-> None]

\* engine.list_available_tasks(): index 0 is the abstract task class
list_available_tasks == <<"BaseTask", "Classification", "Ranking">>

\* task.list_available_losses()
list_available_losses(task) ==
    IF task = Inst("Classification") THEN <<"categorical_crossentropy">>
    ELSE <<"mse", "rank_hinge_loss">>

\* task.list_available_metrics()
list_available_metrics(task) ==
    IF task = Inst("Classification") THEN <<"acc">>
    ELSE <<"mae", "map">>

----------------------------------------------------------------------------
(* Objects.  A params object is identified by the place that created it    *)
(* (site) and carries its current items; a backend is an opaque keras      *)
(* model identified the same way.                                          *)

NoParams == [site |-> "none", vals |-> EmptyMap]
NoneBackend == <<"None">>
Backend(site) == <<"keras", site>>
NoModel == [cls |-> "None", params |-> NoParams, backend |-> NoneBackend]

\* cls.get_default_params(): MyModel overrides it and adds a model key
get_default_params(cls) ==
    [site |-> "default",
     vals |-> IF cls = "MyModel"
              THEN SetItem(ModelParams, "num_eggs", Num("512"))
              ELSE ModelParams]

\* bool(params): None is false, and so is a mapping without items
Truthy(params) == params # NoParams /\ DOMAIN params.vals # {}

\* a constructor that ignores the params it is given
Construct_defaults_only(cls, params, backend) ==
    [cls |-> cls, params |-> get_default_params(cls), backend |-> backend]

\* BaseModel.__init__(self, params=None, backend=None)
Construct(cls, params, backend) ==
    [cls |-> cls,
     params |-> IF Truthy(params) THEN params ELSE get_default_params(cls),
     backend |-> backend]

----------------------------------------------------------------------------
(* guess_and_fill_missing_params, one operator per step *)

FillName(vals, cls) ==
    IF vals["name"] = None THEN SetItem(vals, "name", Str(cls)) ELSE vals

FillModelClass(vals, cls) ==
    IF vals["model_class"] = None
    THEN SetItem(vals, "model_class", Cls(cls))
    ELSE vals

\* a task step without its None test
FillTask_unconditional(vals) ==
    SetItem(vals, "task", Inst(PyIndex(list_available_tasks, 1)))

FillTask(vals) ==
    IF vals["task"] = None
    THEN SetItem(vals, "task", Inst(PyIndex(list_available_tasks, 1)))
    ELSE vals

FillInputShapes(vals) ==
    IF vals["input_shapes"] = None
    THEN SetItem(vals, "input_shapes", List(<<"(30,)", "(30,)">>))
    ELSE vals

\* a metrics step that asks the default task, not the task in params
FillMetrics_of_default_task(vals) ==
    IF vals["metrics"] = None
    THEN LET task == Inst(PyIndex(list_available_tasks, 1))
         IN  SetItem(vals, "metrics", List(list_available_metrics(task)))
    ELSE vals

FillMetrics(vals) ==
    IF vals["metrics"] = None
    THEN LET task == vals["task"]
             available_metrics == list_available_metrics(task)
         IN  SetItem(vals, "metrics", List(available_metrics))
    ELSE vals

FillLoss(vals) ==
    IF vals["loss"] = None
    THEN LET available_losses == list_available_losses(vals["task"])
         IN  SetItem(vals, "loss", Str(PyIndex(available_losses, 0)))
    ELSE vals

\* an optimizer step that fills nothing
FillOptimizer_skipped(vals) == vals

FillOptimizer(vals) ==
    IF vals["optimizer"] = None
    THEN SetItem(vals, "optimizer", Str("adam"))
    ELSE vals

guess_and_fill_missing_params(m) ==
    LET v1 == FillName(m.params.vals, m.cls)
        v2 == FillModelClass(v1, m.cls)
        v3 == FillTask(v2)
        v4 == FillInputShapes(v3)
        v5 == FillMetrics(v4)
        v6 == FillLoss(v5)
        v7 == FillOptimizer(v6)
    IN  [m EXCEPT !.params.vals = v7]

----------------------------------------------------------------------------
(* all_params_filled *)

\* params.values(), in iteration order
Values(vals) ==
    LET keys == SelectSeq(KeyOrder, LAMBDA k : k \in DOMAIN vals)
    IN  [i \in 1..Len(keys) |-> vals[keys[i]]]

\* the builtin all(): stops at the first false item
RECURSIVE All(_)
All(bools) ==
    IF bools = <<>> THEN TRUE
    ELSE IF ~Head(bools) THEN FALSE
    ELSE All(Tail(bools))

\* a test that looks at the standard keys only
all_params_filled_standard_keys(m) ==
    \A k \in StdKeys : m.params.vals[k] # None

all_params_filled(m) ==
    LET values == Values(m.params.vals)
    IN  All([i \in 1..Len(values) |-> values[i] # None])

----------------------------------------------------------------------------
(* compile / fit / evaluate / predict.  An optional argument is <<>> when  *)
(* the caller omits it and <<v>> when the caller passes v.  Each operator  *)
(* gives the calls made on the backend: the method, its keyword arguments  *)
(* and what the backend returned.                                          *)

DefaultBatchSize == 128
DefaultEpochs == 1

Default(arg, default) == IF arg = <<>> THEN default ELSE arg[1]

BackendCall(name, kwargs, returned) ==
    [name |-> name, kwargs |-> kwargs, returned |-> returned]

\* keras: what Model.fit / evaluate / predict / save hand back
keras_returns(name, kwargs) ==
    IF name = "fit" THEN <<"History", kwargs.x, kwargs.y>>
    ELSE IF name = "evaluate" THEN <<"scores", kwargs.x, kwargs.y>>
    ELSE IF name = "predict" THEN <<"predictions", kwargs.x>>
    ELSE None

compile_kwargs(m) ==
    [optimizer |-> m.params.vals["optimizer"],
     loss |-> m.params.vals["loss"],
     metrics |-> m.params.vals["metrics"]]

\* a fit that forwards the default number of epochs whatever the caller gave
fit_kwargs_default_epochs(x, y, batch_size, epochs) ==
    [x |-> x, y |-> y,
     batch_size |-> Default(batch_size, DefaultBatchSize),
     epochs |-> DefaultEpochs]

fit_kwargs(x, y, batch_size, epochs) ==
    [x |-> x, y |-> y,
     batch_size |-> Default(batch_size, DefaultBatchSize),
     epochs |-> Default(epochs, DefaultEpochs)]

evaluate_kwargs(x, y, batch_size) ==
    [x |-> x, y |-> y, batch_size |-> Default(batch_size, DefaultBatchSize)]

predict_kwargs(x, batch_size) ==
    [x |-> x, batch_size |-> Default(batch_size, DefaultBatchSize)]

\* self._backend.<name>(**kwargs): a None backend has no such attribute
Forward(m, name, kwargs) ==
    IF m.backend = NoneBackend
    THEN [raised |-> "AttributeError", calls |-> <<>>, result |-> None]
    ELSE LET returned == keras_returns(name, kwargs)
         IN  [raised |-> "",
              calls |-> <<BackendCall(name, kwargs, returned)>>,
              result |-> IF name = "compile" THEN None ELSE returned]

----------------------------------------------------------------------------
(* pickle: a mapping is written as its items in iteration order; classes   *)
(* are written by reference, instances by the class that rebuilds them,    *)
(* functions cannot be written.                                            *)

Picklable(vals) == \A k \in DOMAIN vals : vals[k] # Lambda

PickleValue(v) ==
    IF v[1] = "class" THEN <<"GLOBAL", v[2]>>
    ELSE IF v[1] = "instance" THEN <<"REDUCE", v[2]>>
    ELSE <<"LITERAL">> \o v

UnpickleValue(b) ==
    IF b[1] = "GLOBAL" THEN Cls(b[2])
    ELSE IF b[1] = "REDUCE" THEN Inst(b[2])
    ELSE Tail(b)

pickle_dump(vals) ==
    LET keys == SelectSeq(KeyOrder, LAMBDA k : k \in DOMAIN vals)
    IN  [i \in 1..Len(keys) |-> <<keys[i], PickleValue(vals[keys[i]])>>]

pickle_load(bytes) ==
    [k \in {bytes[i][1] : i \in DOMAIN bytes} |->
        UnpickleValue(bytes[CHOOSE i \in DOMAIN bytes : bytes[i][1] = k][2])]

----------------------------------------------------------------------------
(* The file system at a path: nothing there (with or without a parent      *)
(* directory), a regular file, or a directory with its files.              *)

Paths == {"saved_model"}

Node(kind, files) == [kind |-> kind, files |-> files]
NoParent == Node("noparent", EmptyMap)
Absent == Node("absent", EmptyMap)
RegularFile == Node("file", EmptyMap)
EmptyDir == Node("dir", EmptyMap)

\* Path.exists()
PathExists(node) == node.kind \in {"file", "dir"}

\* Path.mkdir(): parents=False, exist_ok=False
Mkdir(node) ==
    IF node.kind \in {"file", "dir"}
    THEN [raised |-> "FileExistsError", node |-> node]
    ELSE IF node.kind = "noparent"
    THEN [raised |-> "FileNotFoundError", node |-> node]
    ELSE [raised |-> "", node |-> EmptyDir]

\* open(path, 'wb') followed by the writing of bytes
WriteFile(node, filename, bytes) ==
    Node(node.kind, SetItem(node.files, filename, bytes))

\* keras: the checkpoint Model.save writes, and the model load_model restores
keras_checkpoint(backend) == <<"h5", backend[1]>>
keras_load_model(bytes) == <<bytes[2], "restored">>

\* pickle.dump(self._params, ...): the bytes written to the params file
params_bytes_of_defaults(m) == pickle_dump(get_default_params(m.cls).vals)
params_bytes(m) == pickle_dump(m.params.vals)

Outcome(raised, node, fsOps, calls) ==
    [raised |-> raised, node |-> node, fsOps |-> fsOps, calls |-> calls]

\* BaseModel.save from the mkdir on: directory, backend file, params file
save_files(m, dirpath, node) ==
    LET made == Mkdir(node)
        backend_file_path == <<dirpath, BACKEND_FILENAME>>
        params_file_path == <<dirpath, PARAMS_FILENAME>>
        saveCall == BackendCall("save", [filepath |-> backend_file_path], None)
        withBackend ==
            WriteFile(made.node, BACKEND_FILENAME, keras_checkpoint(m.backend))
        opened == WriteFile(withBackend, PARAMS_FILENAME, <<>>)
        dumped == WriteFile(withBackend, PARAMS_FILENAME, params_bytes(m))
    IN  IF made.raised # ""
        THEN Outcome(made.raised, node, <<>>, <<>>)
        ELSE IF m.backend = NoneBackend
        THEN Outcome("AttributeError", made.node, <<<<"mkdir", dirpath>>>>,
                     <<>>)
        ELSE IF ~Picklable(m.params.vals)
        THEN Outcome("PicklingError", opened,
                     <<<<"mkdir", dirpath>>, <<"write", backend_file_path>>,
                       <<"open", params_file_path>>>>,
                     <<saveCall>>)
        ELSE Outcome("", dumped,
                     <<<<"mkdir", dirpath>>, <<"write", backend_file_path>>,
                       <<"open", params_file_path>>,
                       <<"write", params_file_path>>>>,
                     <<saveCall>>)

\* a save that replaces whatever is at dirpath instead of refusing
save_overwriting(m, dirpath, node) ==
    save_files(m, dirpath, IF PathExists(node) THEN Absent ELSE node)

\* BaseModel.save(dirpath)
save(m, dirpath, node) ==
    IF PathExists(node)
    THEN Outcome("FileExistsError", node, <<>>, <<>>)
    ELSE save_files(m, dirpath, node)

\* load_model(dirpath): the model it returns, or the exception it raises
load_model(dirpath, node) ==
    LET hasBackend ==
            node.kind = "dir" /\ BACKEND_FILENAME \in DOMAIN node.files
        hasParams ==
            node.kind = "dir" /\ PARAMS_FILENAME \in DOMAIN node.files
        backend == keras_load_model(node.files[BACKEND_FILENAME])
        bytes == node.files[PARAMS_FILENAME]
        params == [site |-> "unpickled", vals |-> pickle_load(bytes)]
        model_class == params.vals["model_class"]
    IN  IF ~hasBackend THEN [raised |-> "OSError", model |-> NoModel]
        ELSE IF ~hasParams
        THEN [raised |-> "FileNotFoundError", model |-> NoModel]
        ELSE IF bytes = <<>> THEN [raised |-> "EOFError", model |-> NoModel]
        ELSE IF model_class[1] # "class"
        THEN [raised |-> "TypeError", model |-> NoModel]
        ELSE [raised |-> "",
              model |-> Construct(model_class[2], params, backend)]

----------------------------------------------------------------------------
(* State.  model: the model the caller holds (NoModel before the first     *)
(* construction); fs: the file system at each path; lastCall: the last     *)
(* operation, its arguments and everything it was seen to do; saved: the   *)
(* model as it was when save last succeeded.                               *)

Call(op, args, raised, result, calls, fsOps) ==
    [op |-> op, args |-> args, raised |-> raised, result |-> result,
     calls |-> calls, fsOps |-> fsOps]

NotSaved == [ok |-> FALSE, cls |-> "None", vals |-> EmptyMap]

\* what callers pass
UserParams == [site |-> "user", vals |-> ModelParams]
BackendArgs == {NoneBackend, Backend("arg")}
UserItems ==
    {<<"task", Inst("Ranking")>>, <<"my_param", None>>,
     <<"my_param", Lambda>>}
Inputs == {"x_train"}
Labels == {"y_train"}
BatchSizeArgs == {<<>>, <<32>>}
EpochsArgs == {<<>>, <<2>>}

Init ==
    /\ model = NoModel
    /\ fs \in [Paths -> {NoParent, Absent, RegularFile}]
    /\ lastCall = Call("none", <<>>, "", None, <<>>, <<>>)
    /\ saved = NotSaved

\* model = cls(params=..., backend=...)
New(cls, params, backend) ==
    /\ model' = Construct(cls, params, backend)
    /\ lastCall' = Call("__init__", [cls |-> cls, params |-> params,
                                     backend |-> backend],
                        "", None, <<>>, <<>>)
    /\ UNCHANGED <<fs, saved>>

\* model.params[key] = value
SetParam(key, value) ==
    /\ model # NoModel
    /\ model' = [model EXCEPT !.params.vals = SetItem(@, key, value)]
    /\ lastCall' = Call("__setitem__", <<key, value>>, "", None, <<>>, <<>>)
    /\ UNCHANGED <<fs, saved>>

GuessAndFill ==
    /\ model # NoModel
    /\ model' = guess_and_fill_missing_params(model)
    /\ lastCall' = Call("guess_and_fill_missing_params", <<>>, "", None,
                        <<>>, <<>>)
    /\ UNCHANGED <<fs, saved>>

AllParamsFilled ==
    /\ model # NoModel
    /\ lastCall' = Call("all_params_filled", <<>>, "",
                        Bool(all_params_filled(model)), <<>>, <<>>)
    /\ UNCHANGED <<model, fs, saved>>

Compile ==
    /\ model # NoModel
    /\ LET done == Forward(model, "compile", compile_kwargs(model))
       IN  lastCall' = Call("compile", <<>>, done.raised, done.result,
                            done.calls, <<>>)
    /\ UNCHANGED <<model, fs, saved>>

Fit(x, y, batch_size, epochs) ==
    /\ model # NoModel
    /\ LET done == Forward(model, "fit", fit_kwargs(x, y, batch_size, epochs))
       IN  lastCall' = Call("fit", [x |-> x, y |-> y,
                                    batch_size |-> batch_size,
                                    epochs |-> epochs],
                            done.raised, done.result, done.calls, <<>>)
    /\ UNCHANGED <<model, fs, saved>>

Evaluate(x, y, batch_size) ==
    /\ model # NoModel
    /\ LET done == Forward(model, "evaluate", evaluate_kwargs(x, y, batch_size))
       IN  lastCall' = Call("evaluate", [x |-> x, y |-> y,
                                         batch_size |-> batch_size],
                            done.raised, done.result, done.calls, <<>>)
    /\ UNCHANGED <<model, fs, saved>>

Predict(x, batch_size) ==
    /\ model # NoModel
    /\ LET done == Forward(model, "predict", predict_kwargs(x, batch_size))
       IN  lastCall' = Call("predict", [x |-> x, batch_size |-> batch_size],
                            done.raised, done.result, done.calls, <<>>)
    /\ UNCHANGED <<model, fs, saved>>

Save(dirpath) ==
    /\ model # NoModel
    /\ LET done == save(model, dirpath, fs[dirpath])
       IN  /\ fs' = [fs EXCEPT ![dirpath] = done.node]
           /\ lastCall' = Call("save", <<dirpath>>, done.raised, None,
                               done.calls, done.fsOps)
           /\ saved' = IF done.raised = ""
                       THEN [ok |-> TRUE, cls |-> model.cls,
                             vals |-> model.params.vals]
                       ELSE saved
    /\ UNCHANGED model

\* model = load_model(dirpath)
LoadModel(dirpath) ==
    /\ LET done == load_model(dirpath, fs[dirpath])
       IN  /\ lastCall' = Call("load_model", <<dirpath>>, done.raised,
                               done.model, <<>>, <<>>)
           /\ model' = IF done.raised = "" THEN done.model ELSE model
    /\ UNCHANGED <<fs, saved>>

Next ==
    \/ \E cls \in Classes, backend \in BackendArgs :
        \E params \in {NoParams, UserParams, model.params} :
            New(cls, params, backend)
    \/ \E item \in UserItems : SetParam(item[1], item[2])
    \/ GuessAndFill
    \/ AllParamsFilled
    \/ Compile
    \/ \E x \in Inputs, y \in Labels, batch_size \in BatchSizeArgs,
          epochs \in EpochsArgs : Fit(x, y, batch_size, epochs)
    \/ \E x \in Inputs, y \in Labels, batch_size \in BatchSizeArgs :
        Evaluate(x, y, batch_size)
    \/ \E x \in Inputs, batch_size \in BatchSizeArgs : Predict(x, batch_size)
    \/ \E dirpath \in Paths : Save(dirpath)
    \/ \E dirpath \in Paths : LoadModel(dirpath)

Spec == Init /\ [][Next]_vars

----------------------------------------------------------------------------
(* Properties *)

GuessOp == "guess_and_fill_missing_params"
Forwarded == {"compile", "fit", "evaluate", "predict"}

\* C1: save(dirpath) on a dirpath that already exists, as a file or as a
\* directory, raises FileExistsError and changes nothing: the file system
\* and the model are as before, no file operation is made and the backend's
\* save is not invoked.
C1_SaveExistingChangesNothing ==
    [][\A d \in Paths :
        (lastCall'.op = "save" /\ lastCall'.args = <<d>>
            /\ fs[d].kind \in {"file", "dir"})
        => /\ lastCall'.raised = "FileExistsError"
           /\ fs' = fs
           /\ model' = model
           /\ lastCall'.fsOps = <<>>
           /\ lastCall'.calls = <<>>]_vars

\* C1 witness: a save was refused on a directory that holds files
C1_Witness ==
    /\ lastCall.op = "save"
    /\ lastCall.raised = "FileExistsError"
    /\ \E d \in Paths : fs[d].kind = "dir" /\ DOMAIN fs[d].files # {}

\* what C2 promises of a save of m into the absent dirpath d
SavedTwoFiles(m, d, call, node) ==
    /\ call.raised = ""
    /\ node.kind = "dir"
    /\ DOMAIN node.files = {"backend.h5", "params.pkl"}
    /\ node.files["backend.h5"] = keras_checkpoint(m.backend)
    /\ pickle_load(node.files["params.pkl"]) = m.params.vals
    /\ call.fsOps = <<<<"mkdir", d>>, <<"write", <<d, "backend.h5">>>>,
                      <<"open", <<d, "params.pkl">>>>,
                      <<"write", <<d, "params.pkl">>>>>>

\* C2 as claimed: save(dirpath) on an absent dirpath whose parent exists,
\* with serialisable params, ends with dirpath a directory holding exactly
\* backend.h5 (the backend checkpoint) and params.pkl (the pickled params),
\* made in the order directory, backend file, params file; the model is
\* unchanged.
C2_SaveCreatesTwoFiles ==
    [][\A d \in Paths :
        (lastCall'.op = "save" /\ lastCall'.args = <<d>>
            /\ fs[d].kind = "absent" /\ Picklable(model.params.vals))
        => /\ SavedTwoFiles(model, d, lastCall', fs'[d])
           /\ model' = model]_vars

\* C2 amended: the same, for a model whose backend is not None
C2_SaveWithBackendCreatesTwoFiles ==
    [][\A d \in Paths :
        (lastCall'.op = "save" /\ lastCall'.args = <<d>>
            /\ fs[d].kind = "absent" /\ Picklable(model.params.vals)
            /\ model.backend # NoneBackend)
        => /\ SavedTwoFiles(model, d, lastCall', fs'[d])
           /\ model' = model]_vars

\* C2 witness: a save succeeded and left the two files
C2_Witness ==
    /\ lastCall.op = "save"
    /\ lastCall.raised = ""
    /\ \E d \in Paths :
        fs[d].kind = "dir"
        /\ DOMAIN fs[d].files = {"backend.h5", "params.pkl"}

\* C3: load_model reverses save: once a save into d has succeeded,
\* load_model(d) succeeds and returns a model of the saving model's class,
\* with params equal to the params at save time and with the backend
\* restored from d's backend.h5, and leaves the directory as it was.
C3_LoadReversesSave ==
    [][\A d \in Paths :
        (lastCall'.op = "load_model" /\ lastCall'.args = <<d>> /\ saved.ok)
        => /\ lastCall'.raised = ""
           /\ lastCall'.result = model'
           /\ model'.cls = saved.cls
           /\ model'.params.vals = saved.vals
           /\ model'.backend = keras_load_model(fs[d].files["backend.h5"])
           /\ fs' = fs]_vars

\* C4 as claimed: once guess_and_fill_missing_params has returned,
\* all_params_filled() is true, whatever the params held before.
C4_FilledAfterGuess ==
    lastCall.op = GuessOp => all_params_filled(model)

\* C4 amended: once guess_and_fill_missing_params has returned on params
\* that hold no None under a key other than the seven standard ones,
\* all_params_filled() is true; and it is false for a model just
\* constructed with default params.
C4_FilledAfterGuessOfStandardKeys ==
    LET vals == model.params.vals
    IN  /\ (lastCall.op = GuessOp
              /\ \A k \in (DOMAIN vals) \ StdKeys : vals[k] # None)
           => all_params_filled(model)
        /\ (lastCall.op = "__init__" /\ lastCall.args.params = NoParams)
           => ~all_params_filled(model)

\* C4 witness: the guess has returned on params with a model-specific key
\* and every param is filled
C4_Witness ==
    /\ lastCall.op = GuessOp
    /\ "num_eggs" \in DOMAIN model.params.vals
    /\ all_params_filled(model)

\* the keyword arguments C5 expects the backend to receive for a call
ExpectedKwargs(m, call) ==
    LET a == call.args
        batch == IF a.batch_size = <<>> THEN 128 ELSE a.batch_size[1]
    IN  IF call.op = "compile"
        THEN [optimizer |-> m.params.vals["optimizer"],
              loss |-> m.params.vals["loss"],
              metrics |-> m.params.vals["metrics"]]
        ELSE IF call.op = "fit"
        THEN [x |-> a.x, y |-> a.y, batch_size |-> batch,
              epochs |-> IF a.epochs = <<>> THEN 1 ELSE a.epochs[1]]
        ELSE IF call.op = "evaluate"
        THEN [x |-> a.x, y |-> a.y, batch_size |-> batch]
        ELSE [x |-> a.x, batch_size |-> batch]

C6_ConstructorKeepsArguments ==
    lastCall.op = "__init__"
    => LET a == lastCall.args
       IN  /\ a.params = NoParams
              => model.params = get_default_params(a.cls)
           /\ a.params # NoParams => model.params = a.params
           /\ model.backend = a.backend
           /\ model.cls = a.cls

\* C6 witness: a model was constructed on a params object that an earlier
\* model had filled
C6_Witness ==
    /\ lastCall.op = "__init__"
    /\ lastCall.args.params # NoParams
    /\ lastCall.args.params.vals["optimizer"] # None
    /\ model.params = lastCall.args.params

\* C7: all_params_filled() returns True exactly when no value stored in
\* params is None, model-specific keys included, and changes no state.
C7_AllParamsFilledIffNoNone ==
    [][lastCall'.op = "all_params_filled"
        => /\ lastCall'.result
              = Bool(\A k \in DOMAIN model.params.vals :
                        model.params.vals[k] # None)
           /\ model' = model
           /\ fs' = fs]_vars

\* C7 witness: all_params_filled() returned False because of a
\* model-specific key alone
C7_Witness ==
    /\ lastCall.op = "all_params_filled"
    /\ lastCall.result = Bool(FALSE)
    /\ \A k \in StdKeys : model.params.vals[k] # None
    /\ "my_param" \in DOMAIN model.params.vals
    /\ model.params.vals["my_param"] = None

\* C8: guess_and_fill_missing_params fills each missing standard param:
\* name with the class name, model_class with the class, task with an
\* instance of the second available task, input_shapes with [(30,), (30,)],
\* metrics with all available metrics of the task held after the task step,
\* loss with the first available loss of that task, optimizer with 'adam'.
C8_GuessedValues ==
    [][lastCall'.op = GuessOp
        => LET pre == model.params.vals
               post == model'.params.vals
           IN  /\ pre["name"] = None => post["name"] = Str(model.cls)
               /\ pre["model_class"] = None
                  => post["model_class"] = Cls(model.cls)
               /\ pre["task"] = None
                  => post["task"] = Inst(list_available_tasks[2])
               /\ pre["task"] # None => post["task"] = pre["task"]
               /\ pre["input_shapes"] = None
                  => post["input_shapes"] = List(<<"(30,)", "(30,)">>)
               /\ pre["metrics"] = None
                  => post["metrics"]
                     = List(list_available_metrics(post["task"]))
               /\ pre["loss"] = None
                  => post["loss"]
                     = Str(list_available_losses(post["task"])[1])
               /\ pre["optimizer"] = None
                  => post["optimizer"] = Str("adam")]_vars

\* C8 witness: the guess has derived metrics and loss from a task the user
\* supplied
C8_Witness ==
    /\ lastCall.op = GuessOp
    /\ model.params.vals["task"] = Inst("Ranking")
    /\ model.params.vals["metrics"] = List(<<"mae", "map">>)
    /\ model.params.vals["loss"] = Str("mse")

\* C9: guess_and_fill_missing_params only fills what is missing: a param
\* that was not None keeps its value, no key is added or removed, the params
\* object, the class and the backend stay the same, and a second consecutive
\* call changes nothing.
C9_GuessOnlyFillsMissing ==
    [][lastCall'.op = GuessOp
        => LET pre == model.params.vals
               post == model'.params.vals
           IN  /\ DOMAIN post = DOMAIN pre
               /\ \A k \in DOMAIN pre : pre[k] # None => post[k] = pre[k]
               /\ model'.params.site = model.params.site
               /\ model'.backend = model.backend
               /\ model'.cls = model.cls
               /\ fs' = fs
               /\ lastCall.op = GuessOp => model' = model]_vars

\* C9 witness: the guess has returned on params that held user values,
\* among them a task, and these are still there
C9_Witness ==
    /\ lastCall.op = GuessOp
    /\ model.params.vals["task"] = Inst("Ranking")
    /\ "my_param" \in DOMAIN model.params.vals
    /\ model.params.vals["my_param"] = Lambda
    /\ model.params.vals["metrics"] = List(<<"acc">>)

====
